---- MODULE Spec2Model ----
(***************************************************************************)
(* Model of Server/gemini_proxy/server.py: the GeminiClientManager (one    *)
(* shared backend session with throttling and re-initialisation), the chat *)
(* handler, the SSE stream generator and the exception mapper.             *)
(*                                                                         *)
(* Every coroutine is modelled with asyncio's semantics: the code between  *)
(* two suspension points (an await that really suspends, or a yield of the *)
(* async generator) is one atomic step.                                       *)
(*                                                                         *)
(* Time is counted in whole seconds and kept relative to the current       *)
(* instant: the model stores time.monotonic() - x for each time x the code *)
(* keeps, cut off at MIN_REQUEST_INTERVAL (the code only ever compares     *)
(* such a difference with that interval), so no bound on time is needed.   *)
(***************************************************************************)
EXTENDS Integers, Sequences, FiniteSets, TLC

\* config.py:7
MIN_REQUEST_INTERVAL == 2

\* Bounds of the model.
NumProcs == 2
MaxDeltas == 3
MaxDeltasConcurrent == 1
MaxTurns == 3

Procs == 1..NumProcs

\* The exception classes of gemini_webapi.exceptions imported at
\* server.py:19-27, and "AttributeError"/"OtherError" for everything else.
Bases(e) ==
    CASE e = "AuthError"          -> {"AuthError"}
      [] e = "UsageLimitExceeded" -> {"UsageLimitExceeded", "GeminiError"}
      [] e = "TemporarilyBlocked" -> {"TemporarilyBlocked", "GeminiError"}
      [] e = "ModelInvalid"       -> {"ModelInvalid", "GeminiError"}
      [] e = "GeminiTimeoutError" -> {"GeminiTimeoutError", "GeminiError"}
      [] e = "GeminiError"        -> {"GeminiError"}
      [] e = "APIError"           -> {"APIError"}
      [] OTHER                    -> {}

isinstance(e, classes) == Bases(e) \cap classes # {}

\* What the backend (or anything under the handler's try) can raise.
BackendExceptions ==
    {"AuthError", "UsageLimitExceeded", "TemporarilyBlocked", "ModelInvalid",
     "GeminiTimeoutError", "GeminiError", "APIError", "OtherError"}

\* What GeminiClient.init can raise.
InitExceptions == {"AuthError", "GeminiTimeoutError", "OtherError"}

\* output.text of a bulk result, output.text_delta of a stream fragment.
Texts == {"NoneText", "", "Hello"}
Deltas == {"NoneDelta", "", "a", "b"}

\* request_body.model: two keys of MODEL_MAP, a name only the library knows
\* and a name nobody knows.
ModelNames == {"gemini-3.0-pro", "gpt-4o", "unspecified", "not-a-model"}

\* ChatMessage.content is a str: a sequence of characters.
Contents == {<<>>, <<"a">>, <<"b", "\n">>}

ChatMessage(c) == [role |-> "user", content |-> c]

\* request_body.messages with at most n turns.
RECURSIVE MessageLists(_)
MessageLists(n) ==
    IF n = 0 THEN {<<>>}
    ELSE LET shorter == MessageLists(n - 1)
         IN  shorter \cup {Append(ms, ChatMessage(c)) :
                              ms \in {m \in shorter : Len(m) = n - 1},
                              c \in Contents}

OneTurn == {<<ChatMessage(<<"a">>)>>}

\* The inputs of a specification: how many of the tasks may be chat requests,
\* what they ask and what the backend may answer them.  AllRequests has
\* every task free to be a request, with a few representative answers;
\* OneRequest has one request (beside tasks calling start and stop) with
\* every answer; AnyPrompt has one request with every model name and message
\* list.
AllRequests ==
    [requests |-> NumProcs, excs |-> {"AuthError", "OtherError"},
     initExcs |-> {"AuthError"}, texts |-> {"Hello"}, deltas |-> {"", "a"},
     maxDeltas |-> MaxDeltasConcurrent,
     models |-> {"gpt-4o", "not-a-model"}, messages |-> OneTurn]

OneRequest ==
    [requests |-> 1, excs |-> BackendExceptions, initExcs |-> InitExceptions,
     texts |-> Texts, deltas |-> Deltas, maxDeltas |-> MaxDeltas,
     models |-> {"gpt-4o", "not-a-model"}, messages |-> OneTurn]

\* Every task free to be a request, one answer of each sort.
Terse ==
    [requests |-> NumProcs, excs |-> {"OtherError"},
     initExcs |-> {"AuthError"}, texts |-> {"Hello"}, deltas |-> {"a"},
     maxDeltas |-> MaxDeltasConcurrent,
     models |-> {"gpt-4o"}, messages |-> OneTurn]

AnyPrompt ==
    [requests |-> 1, excs |-> {"OtherError"}, initExcs |-> {"AuthError"},
     texts |-> {"Hello"}, deltas |-> {"a"}, maxDeltas |-> 1,
     models |-> ModelNames, messages |-> MessageLists(MaxTurns)]

\* Python truthiness of an Optional[str].
Truthy(t) == t \notin {"NoneText", "NoneDelta", ""}

VARIABLES
    client,           \* self._client: 0 is None, otherwise a handle id
    running,          \* the handles whose _running flag is True
    numHandles,       \* GeminiClient() objects constructed so far
    elapsed,          \* time.monotonic() - self._last_request_time
    lockOwner,        \* holder of self._init_lock, 0 when free
    waiters,          \* FIFO queue of tasks waiting for self._init_lock
    pc,               \* where each task is suspended
    kind,             \* which operation the task runs
    h,                \* the handle a task's pending init/close/generate is on
    sleepLeft,        \* what is left of the task's asyncio.sleep
    deltas,           \* what the backend stream has yielded to the task
    events,           \* the SSE events the task's generator has produced
    resp,             \* the HTTP response of the task's request
    exc,              \* the exception raised inside the task's call
    model,            \* request_body.model of the task's request
    messages,         \* request_body.messages of the task's request
    prompt,           \* the prompt the task's request hands to the manager
    sinceCall,        \* history: time since the latest backend call began
    lastGap,          \* history: spacing of the two latest backend calls
    okInits,          \* history: successful inits begun in this episode
    seen,             \* history: the task saw "not ready" in this episode
    decided,          \* history: the task began an init in this episode
    initFailed,       \* history: some initialisation has failed
    stampRead         \* history: the task computed elapsed from the stamp as
                      \* it is now and has not written the stamp yet

vars == <<client, running, numHandles, elapsed, lockOwner, waiters,
          pc, kind, h, sleepLeft, deltas, events, resp, exc,
          model, messages, prompt,
          sinceCall, lastGap, okInits, seen, decided, initFailed,
          stampRead>>

\* The state as one record, so that the straight-line code between two
\* suspension points composes as function application.
Cur ==
    [client |-> client, running |-> running, numHandles |-> numHandles,
     elapsed |-> elapsed, lockOwner |-> lockOwner,
     waiters |-> waiters, pc |-> pc, kind |-> kind, h |-> h,
     sleepLeft |-> sleepLeft, deltas |-> deltas, events |-> events,
     resp |-> resp, exc |-> exc, model |-> model, messages |-> messages,
     prompt |-> prompt, sinceCall |-> sinceCall, lastGap |-> lastGap,
     okInits |-> okInits, seen |-> seen, decided |-> decided,
     initFailed |-> initFailed, stampRead |-> stampRead]

Assign(t) ==
    /\ client' = t.client /\ running' = t.running
    /\ numHandles' = t.numHandles
    /\ elapsed' = t.elapsed
    /\ lockOwner' = t.lockOwner /\ waiters' = t.waiters
    /\ pc' = t.pc /\ kind' = t.kind /\ h' = t.h /\ sleepLeft' = t.sleepLeft
    /\ deltas' = t.deltas /\ events' = t.events /\ resp' = t.resp
    /\ exc' = t.exc /\ model' = t.model /\ messages' = t.messages
    /\ prompt' = t.prompt /\ sinceCall' = t.sinceCall
    /\ lastGap' = t.lastGap /\ okInits' = t.okInits /\ seen' = t.seen
    /\ decided' = t.decided /\ initFailed' = t.initFailed
    /\ stampRead' = t.stampRead

Step(t) == LET n == t IN Assign(n)

NoResp == [status |-> 0, type |-> "", code |-> "", message |-> <<>>,
           content |-> ""]

Init ==
    /\ client = 0 /\ running = {} /\ numHandles = 0
    /\ elapsed \in 0..MIN_REQUEST_INTERVAL
    /\ lockOwner = 0 /\ waiters = <<>>
    /\ pc = [p \in Procs |-> "idle"]
    /\ kind = [p \in Procs |-> "none"]
    /\ h = [p \in Procs |-> 0]
    /\ sleepLeft = [p \in Procs |-> 0]
    /\ deltas = [p \in Procs |-> <<>>]
    /\ events = [p \in Procs |-> <<>>]
    /\ resp = [p \in Procs |-> NoResp]
    /\ exc = [p \in Procs |-> "None"]
    /\ model = [p \in Procs |-> ""]
    /\ messages = [p \in Procs |-> <<>>]
    /\ prompt = [p \in Procs |-> <<>>]
    /\ sinceCall = MIN_REQUEST_INTERVAL /\ lastGap = MIN_REQUEST_INTERVAL
    /\ okInits = 0
    /\ seen = [p \in Procs |-> FALSE]
    /\ decided = [p \in Procs |-> FALSE]
    /\ initFailed = FALSE
    /\ stampRead = [p \in Procs |-> FALSE]

----------------------------------------------------------------------------
\* GeminiClientManager

\* The ready property.
Ready(s) == s.client # 0 /\ s.client \in s.running

\* A session episode ends whenever the session is torn down or invalidated
\* (the backend clears _running, or stop() closes and releases the handle):
\* what the tasks saw and began before then belongs to the past episode.
EndEpisode(s) ==
    [s EXCEPT !.okInits = 0,
              !.seen = [q \in Procs |-> FALSE],
              !.decided = [q \in Procs |-> FALSE]]

\* Mutant: the lock is never seen as taken.
LockFree_Always(s) == s.lockOwner = s.lockOwner

\* asyncio.Lock: free when nobody holds it; release hands it to the first
\* waiter (FIFO).
LockFree(s) == s.lockOwner = 0

Release(s) ==
    IF s.waiters = <<>>
    THEN [s EXCEPT !.lockOwner = 0]
    ELSE [s EXCEPT !.lockOwner = Head(s.waiters), !.waiters = Tail(s.waiters)]

Enqueue(s, p, where) ==
    [s EXCEPT !.pc[p] = where, !.waiters = Append(@, p)]

\* self._client = GeminiClient()
NewClient(s, p) ==
    [s EXCEPT !.numHandles = @ + 1, !.client = s.numHandles + 1,
              !.h[p] = s.numHandles + 1]

\* The init task p began has succeeded.
CountInit(s, p) ==
    [s EXCEPT !.okInits = IF s.decided[p] THEN @ + 1 ELSE @,
              !.decided[p] = FALSE]

----------------------------------------------------------------------------
\* Error mapping and response construction

error_response(status, prefix, e, error_type, code) ==
    [status |-> status, type |-> error_type, code |-> code,
     message |-> <<prefix, e>>, content |-> ""]

\* Mutant: the generic classes are tested before the specific ones.
handle_gemini_exception_GenericFirst(e) ==
    IF isinstance(e, {"GeminiError", "APIError"})
    THEN error_response(502, "Gemini error", e, "upstream_error",
                        "gemini_error")
    ELSE IF isinstance(e, {"AuthError"})
    THEN error_response(401, "Gemini authentication failed", e,
                        "authentication_error", "auth_error")
    ELSE error_response(502, "Unexpected error", e, "upstream_error", "None")

handle_gemini_exception(e) ==
    IF isinstance(e, {"AuthError"})
    THEN error_response(401, "Gemini authentication failed", e,
                        "authentication_error", "auth_error")
    ELSE IF isinstance(e, {"UsageLimitExceeded", "TemporarilyBlocked"})
    THEN error_response(429, "Gemini rate limit", e,
                        "rate_limit_error", "rate_limit")
    ELSE IF isinstance(e, {"ModelInvalid"})
    THEN error_response(400, "Invalid model", e,
                        "invalid_request_error", "model_invalid")
    ELSE IF isinstance(e, {"GeminiTimeoutError"})
    THEN error_response(502, "Gemini timeout", e, "upstream_error", "timeout")
    ELSE IF isinstance(e, {"GeminiError", "APIError"})
    THEN error_response(502, "Gemini error", e, "upstream_error",
                        "gemini_error")
    ELSE error_response(502, "Unexpected error", e, "upstream_error", "None")

\* ChatCompletionResponse(...).model_dump() with text = output.text or "".
ChatCompletion(text) ==
    [status |-> 200, type |-> "chat.completion", code |-> "stop",
     message |-> <<>>, content |-> IF Truthy(text) THEN text ELSE ""]

\* StreamingResponse(..., media_type="text/event-stream").
StreamingResponse ==
    [status |-> 200, type |-> "text/event-stream", code |-> "None",
     message |-> <<>>, content |-> ""]

\* The SSE frames of _stream_response.
RoleEvent == [ev |-> "chunk", role |-> "assistant", content |-> "None",
              finish_reason |-> "None"]
ContentEvent(d) == [ev |-> "chunk", role |-> "None", content |-> d,
                    finish_reason |-> "None"]
FinishEvent == [ev |-> "chunk", role |-> "None", content |-> "None",
                finish_reason |-> "stop"]
ErrorEvent(e) == [ev |-> "error", message |-> e, type |-> "upstream_error",
                  code |-> "None"]
DoneEvent == [ev |-> "[DONE]"]

\* Mutant: a failing stream has no except clause; the generator just ends.
Fail_Escapes(s, p, e) ==
    CASE s.kind[p] = "chat" ->
           [s EXCEPT !.exc[p] = e, !.resp[p] = handle_gemini_exception(e),
                     !.pc[p] = "done"]
      [] OTHER -> [s EXCEPT !.exc[p] = e, !.pc[p] = "done"]

\* Mutant: a failing stream answers with the mapped error response.
Fail_StreamStatus(s, p, e) ==
    CASE s.kind[p] = "chat" ->
           [s EXCEPT !.exc[p] = e, !.resp[p] = handle_gemini_exception(e),
                     !.pc[p] = "done"]
      [] s.kind[p] = "stream" ->
           [s EXCEPT !.exc[p] = e, !.resp[p] = handle_gemini_exception(e),
                     !.events[p] = Append(@, ErrorEvent(e)),
                     !.pc[p] = "s_err"]
      [] OTHER -> [s EXCEPT !.exc[p] = e, !.pc[p] = "done"]

\* The except clause an exception raised under the task's try reaches:
\* _handle_chat's (non-streaming), _stream_response's (streaming); start()
\* has none and the exception leaves it.
Fail(s, p, e) ==
    CASE s.kind[p] = "chat" ->
           [s EXCEPT !.exc[p] = e, !.resp[p] = handle_gemini_exception(e),
                     !.pc[p] = "done"]
      [] s.kind[p] = "stream" ->
           [s EXCEPT !.exc[p] = e, !.events[p] = Append(@, ErrorEvent(e)),
                     !.pc[p] = "s_err"]
      [] OTHER -> [s EXCEPT !.exc[p] = e, !.pc[p] = "done"]

----------------------------------------------------------------------------
\* generate / generate_stream

\* self._client.generate_content(...) / generate_content_stream(...) is
\* issued: on None the attribute access raises.
IssueCall(s, p) ==
    IF s.client = 0
    THEN Fail(s, p, "AttributeError")
    ELSE [s EXCEPT !.pc[p] = "calling", !.h[p] = s.client,
                   !.lastGap = s.sinceCall, !.sinceCall = 0]

\* Mutant: no second readiness test once the lock is held.
Recover_NoRecheck(s, p) ==
    LET s1 == [s EXCEPT !.decided[p] = TRUE] IN
    IF s1.client # 0
    THEN [s1 EXCEPT !.pc[p] = "ens_closing", !.h[p] = s1.client]
    ELSE [NewClient(s1, p) EXCEPT !.pc[p] = "ens_init"]

\* Mutant: a handle that exists but is not running is treated as fatal.
Recover_GiveUp(s, p) ==
    IF Ready(s)
    THEN IssueCall(Release(s), p)
    ELSE IF s.client # 0
    THEN Fail(Release(s), p, "OtherError")
    ELSE [NewClient([s EXCEPT !.decided[p] = TRUE], p)
            EXCEPT !.pc[p] = "ens_init"]

\* _ensure_client from line 84 on, with the lock held by p.
Recover(s, p) ==
    IF Ready(s)
    THEN IssueCall(Release(s), p)
    ELSE LET s1 == [s EXCEPT !.decided[p] = TRUE] IN
         IF s1.client # 0
         THEN [s1 EXCEPT !.pc[p] = "ens_closing", !.h[p] = s1.client]
         ELSE [NewClient(s1, p) EXCEPT !.pc[p] = "ens_init"]

\* _ensure_client, then the backend call.
ensure_client(s, p) ==
    IF Ready(s)
    THEN IssueCall(s, p)
    ELSE LET s1 == [s EXCEPT !.seen[p] = TRUE] IN
         IF LockFree(s1)
         THEN Recover([s1 EXCEPT !.lockOwner = p], p)
         ELSE Enqueue(s1, p, "ens_wait")

\* await self._client.close() of the stale handle returned or raised (the
\* exception is swallowed); then lines 91-92.
RecoverAfterClose(s, p, ok) ==
    LET s1 == IF ok THEN [s EXCEPT !.running = @ \ {s.h[p]}] ELSE s
    IN  [NewClient(s1, p) EXCEPT !.pc[p] = "ens_init"]

\* await self._client.init(...) returned in _ensure_client.
RecoverInitOk(s, p) ==
    LET s1 == CountInit([s EXCEPT !.running = @ \cup {s.h[p]}], p)
    IN  IssueCall(Release(s1), p)

\* Mutant: the failure of init is swallowed and the call goes on.
InitFailed_Swallowed(s, p, e) ==
    LET s1 == Release([s EXCEPT !.initFailed = TRUE, !.decided[p] = FALSE])
    IN  IF s.kind[p] = "start" THEN [s1 EXCEPT !.pc[p] = "done"]
        ELSE IssueCall(s1, p)

\* Mutant: the exception leaves without the lock being released.
InitFailed_LockKept(s, p, e) ==
    Fail([s EXCEPT !.initFailed = TRUE, !.decided[p] = FALSE], p, e)

\* await self._client.init(...) raised e: the async with releases the lock
\* and the exception leaves _ensure_client and generate.
InitFailed(s, p, e) ==
    Fail(Release([s EXCEPT !.initFailed = TRUE, !.decided[p] = FALSE]), p, e)

\* _throttle line 103, then the rest of generate.
Stamp(s, p) ==
    ensure_client([s EXCEPT !.elapsed = 0,
                            !.stampRead = [q \in Procs |-> FALSE]], p)

\* _throttle.
throttle(s, p) ==
    IF s.elapsed < MIN_REQUEST_INTERVAL
    THEN [s EXCEPT !.pc[p] = "sleeping", !.stampRead[p] = TRUE,
                   !.sleepLeft[p] = MIN_REQUEST_INTERVAL - s.elapsed]
    ELSE Stamp(s, p)

----------------------------------------------------------------------------
\* start / stop

\* Mutant: start() without the readiness test.
StartLocked_NoCheck(s, p) ==
    [NewClient([s EXCEPT !.decided[p] = TRUE], p)
       EXCEPT !.pc[p] = "start_init"]

\* start() inside the lock.
StartLocked(s, p) ==
    IF Ready(s)
    THEN [Release(s) EXCEPT !.pc[p] = "done"]
    ELSE [NewClient([s EXCEPT !.decided[p] = TRUE], p)
            EXCEPT !.pc[p] = "start_init"]

start(s, p) ==
    LET s1 == [s EXCEPT !.kind[p] = "start"] IN
    IF LockFree(s1)
    THEN StartLocked([s1 EXCEPT !.lockOwner = p], p)
    ELSE Enqueue(s1, p, "start_wait")

StartInitOk(s, p) ==
    LET s1 == CountInit([s EXCEPT !.running = @ \cup {s.h[p]}], p)
    IN  [Release(s1) EXCEPT !.pc[p] = "done"]

\* stop() up to its await.
stop(s, p) ==
    LET s1 == [s EXCEPT !.kind[p] = "stop"] IN
    IF s1.client # 0
    THEN [s1 EXCEPT !.pc[p] = "stop_closing", !.h[p] = s1.client]
    ELSE [s1 EXCEPT !.pc[p] = "done"]

\* Mutant: the handle is kept after the close.
StopClosed_KeepHandle(s, p) ==
    EndEpisode([s EXCEPT !.running = @ \ {s.h[p]}, !.pc[p] = "done"])

\* await self._client.close() returned: line 78.
StopClosed(s, p) ==
    EndEpisode([s EXCEPT !.running = @ \ {s.h[p]}, !.client = 0,
                         !.pc[p] = "done"])

\* await self._client.close() raised e: it leaves stop(), line 78 is skipped.
StopCloseFailed(s, p, e) == [s EXCEPT !.exc[p] = e, !.pc[p] = "done"]

----------------------------------------------------------------------------
\* _handle_chat / _stream_response

\* Non-streaming request with a resolvable model, up to the first suspension.
handle_chat(s, p) == throttle([s EXCEPT !.kind[p] = "chat"], p)

\* Streaming request: the StreamingResponse is returned and the generator
\* yields the role chunk.
handle_chat_stream(s, p) ==
    [s EXCEPT !.kind[p] = "stream", !.resp[p] = StreamingResponse,
              !.events[p] = <<RoleEvent>>, !.pc[p] = "s_role"]

\* config.py resolve_model: a key of MODEL_MAP gives its value, any other
\* name goes to the library's Model.from_name, which raises ValueError for a
\* name that is not the model_name of one of its members.
resolve_model(name) ==
    CASE name = "gemini-3.0-pro" -> "G_3_0_PRO"
      [] name = "gpt-4o"         -> "G_3_0_FLASH"
      [] name = "unspecified"    -> "UNSPECIFIED"
      [] OTHER                   -> "ValueError"

\* "\n\n".join(parts): the first part, then the separator before each
\* further part.
RECURSIVE join(_, _)
join(sep, parts) ==
    IF parts = <<>> THEN <<>>
    ELSE IF Len(parts) = 1 THEN parts[1]
    ELSE join(sep, SubSeq(parts, 1, Len(parts) - 1))
             \o sep \o parts[Len(parts)]

\* Mutant: turns with an empty content are left out.
RECURSIVE PartsOf_SkipEmpty(_, _)
PartsOf_SkipEmpty(msgs, n) ==
    IF n = 0 THEN <<>>
    ELSE IF msgs[n].content = <<>> THEN PartsOf_SkipEmpty(msgs, n - 1)
    ELSE Append(PartsOf_SkipEmpty(msgs, n - 1), msgs[n].content)

\* The loop of messages_to_prompt: parts after the first n messages.
RECURSIVE PartsOf(_, _)
PartsOf(msgs, n) ==
    IF n = 0 THEN <<>> ELSE Append(PartsOf(msgs, n - 1), msgs[n].content)

messages_to_prompt(msgs) == join(<<"\n", "\n">>, PartsOf(msgs, Len(msgs)))

\* Mutant: the model name is never looked up; every request goes on.
HandleChat_NoLookup(s, p, name, msgs, stream) ==
    LET s1 == [s EXCEPT !.model[p] = name, !.messages[p] = msgs,
                        !.prompt[p] = messages_to_prompt(msgs)]
    IN  IF stream THEN handle_chat_stream(s1, p) ELSE handle_chat(s1, p)

\* _handle_chat: resolve the model (400 when that raises), build the prompt,
\* then the streaming or the non-streaming path.
HandleChat(s, p, name, msgs, stream) ==
    LET s1 == [s EXCEPT !.model[p] = name, !.messages[p] = msgs] IN
    IF resolve_model(name) = "ValueError"
    THEN [s1 EXCEPT !.kind[p] = IF stream THEN "invalid_stream"
                                ELSE "invalid_chat",
                    !.resp[p] = error_response(400, "", "ValueError",
                                               "invalid_request_error",
                                               "invalid_model"),
                    !.pc[p] = "done"]
    ELSE LET s2 == [s1 EXCEPT !.prompt[p] = messages_to_prompt(msgs)]
         IN  IF stream THEN handle_chat_stream(s2, p) ELSE handle_chat(s2, p)

\* The backend call returned its bulk result.
ChatReturned(s, p, text) ==
    [s EXCEPT !.resp[p] = ChatCompletion(text), !.pc[p] = "done"]

\* Mutant: every delta is framed, empty or not.
StreamYielded_NoSkip(s, p, d) ==
    [s EXCEPT !.deltas[p] = Append(@, d),
              !.events[p] = Append(@, ContentEvent(d))]

\* One iteration of the async for at line 235.
StreamYielded(s, p, d) ==
    [s EXCEPT !.deltas[p] = Append(@, d),
              !.events[p] = IF Truthy(d) THEN Append(@, ContentEvent(d))
                            ELSE @]

\* The backend stream is exhausted: the finish chunk.
StreamFinished(s, p) ==
    [s EXCEPT !.events[p] = Append(@, FinishEvent), !.pc[p] = "s_finish"]

\* yield "data: [DONE]\n\n" on either path.
StreamDone(s, p) ==
    [s EXCEPT !.events[p] = Append(@, DoneEvent), !.pc[p] = "done"]

\* Mutant: the cancellation does not pass through the async with.
Cancelled_LockKept(s, p) ==
    [s EXCEPT !.pc[p] = "cancelled", !.sleepLeft[p] = 0,
              !.stampRead[p] = FALSE]

\* The caller has disconnected: CancelledError (or GeneratorExit at a yield)
\* is raised at the point where the generator is suspended.  It is no
\* Exception, so no except clause of server.py catches it; the async with
\* of _ensure_client releases the lock, and a cancelled Lock.acquire leaves
\* the queue (passing the lock on if it had just been handed over).
Cancelled(s, p) ==
    LET s1 == CASE s.pc[p] \in {"ens_closing", "ens_init"} ->
                     Release([s EXCEPT !.decided[p] = FALSE])
                 [] s.pc[p] = "ens_wait" /\ s.lockOwner = p -> Release(s)
                 [] s.pc[p] = "ens_wait" /\ s.lockOwner # p ->
                     [s EXCEPT !.waiters = SelectSeq(@, LAMBDA q : q # p)]
                 [] OTHER -> s
    IN  [s1 EXCEPT !.pc[p] = "cancelled", !.sleepLeft[p] = 0,
                   !.stampRead[p] = FALSE]

----------------------------------------------------------------------------
\* Actions

\* Tasks are numbered in the order in which they are created.
Arrives(p) == pc[p] = "idle" /\ \A q \in Procs : q < p => pc[q] # "idle"

RequestAllowed(w) ==
    Cardinality({q \in Procs : kind[q] \in {"chat", "stream"}}) < w.requests

RequestInputs(w) == w.models \X w.messages

CallStart(p) == Arrives(p) /\ Step(start(Cur, p))

StartAcquired(p) ==
    pc[p] = "start_wait" /\ lockOwner = p /\ Step(StartLocked(Cur, p))

StartInitReturns(p) == pc[p] = "start_init" /\ Step(StartInitOk(Cur, p))

StartInitRaises(p, w) ==
    /\ pc[p] = "start_init"
    /\ \E e \in w.initExcs : Step(InitFailed(Cur, p, e))

CallStop(p) == Arrives(p) /\ Step(stop(Cur, p))

StopCloseReturns(p) == pc[p] = "stop_closing" /\ Step(StopClosed(Cur, p))

StopCloseRaises(p) ==
    pc[p] = "stop_closing" /\ Step(StopCloseFailed(Cur, p, "OtherError"))

ChatRequest(p, w) ==
    /\ Arrives(p) /\ RequestAllowed(w)
    /\ \E in \in RequestInputs(w) :
           Step(HandleChat(Cur, p, in[1], in[2], FALSE))

StreamRequest(p, w) ==
    /\ Arrives(p) /\ RequestAllowed(w)
    /\ \E in \in RequestInputs(w) :
           Step(HandleChat(Cur, p, in[1], in[2], TRUE))

StreamStarts(p) == pc[p] = "s_role" /\ Step(throttle(Cur, p))

Wake(p) == pc[p] = "sleeping" /\ sleepLeft[p] = 0 /\ Step(Stamp(Cur, p))

EnsureAcquired(p) ==
    pc[p] = "ens_wait" /\ lockOwner = p /\ Step(Recover(Cur, p))

StaleCloseEnds(p) ==
    /\ pc[p] = "ens_closing"
    /\ \E ok \in BOOLEAN : Step(RecoverAfterClose(Cur, p, ok))

RecoverInitReturns(p) == pc[p] = "ens_init" /\ Step(RecoverInitOk(Cur, p))

RecoverInitRaises(p, w) ==
    /\ pc[p] = "ens_init"
    /\ \E e \in w.initExcs : Step(InitFailed(Cur, p, e))

BackendReturns(p, w) ==
    /\ pc[p] = "calling" /\ kind[p] = "chat"
    /\ \E text \in w.texts : Step(ChatReturned(Cur, p, text))

BackendYields(p, w) ==
    /\ pc[p] = "calling" /\ kind[p] = "stream"
    /\ Len(deltas[p]) < w.maxDeltas
    /\ \E d \in w.deltas : Step(StreamYielded(Cur, p, d))

BackendCompletes(p) ==
    pc[p] = "calling" /\ kind[p] = "stream" /\ Step(StreamFinished(Cur, p))

BackendRaises(p, w) ==
    /\ pc[p] = "calling"
    /\ \E e \in w.excs : Step(Fail(Cur, p, e))

SentinelSent(p) == pc[p] \in {"s_finish", "s_err"} /\ Step(StreamDone(Cur, p))

\* The suspension points of a streaming response.
StreamPcs == {"s_role", "sleeping", "ens_wait", "ens_closing", "ens_init",
              "calling", "s_finish", "s_err"}

Disconnect(p) ==
    kind[p] = "stream" /\ pc[p] \in StreamPcs /\ Step(Cancelled(Cur, p))

\* gemini_webapi's internal error handling closes the live session.
Invalidate ==
    Ready(Cur) /\ Step(EndEpisode([Cur EXCEPT !.running = @ \ {client}]))

\* One second passes.
Later(d) == IF d < MIN_REQUEST_INTERVAL THEN d + 1 ELSE d
Sooner(d) == IF d > 0 THEN d - 1 ELSE d
Elapse(s) ==
    [s EXCEPT !.elapsed = Later(@), !.sinceCall = Later(@),
              !.sleepLeft = [q \in Procs |-> Sooner(@[q])]]

Tick == \E t \in {Elapse(Cur)} : Assign(t)

NextWith(w) ==
    \/ \E p \in Procs : CallStart(p)
    \/ \E p \in Procs : StartAcquired(p)
    \/ \E p \in Procs : StartInitReturns(p)
    \/ \E p \in Procs : StartInitRaises(p, w)
    \/ \E p \in Procs : CallStop(p)
    \/ \E p \in Procs : StopCloseReturns(p)
    \/ \E p \in Procs : StopCloseRaises(p)
    \/ \E p \in Procs : ChatRequest(p, w)
    \/ \E p \in Procs : StreamRequest(p, w)
    \/ \E p \in Procs : StreamStarts(p)
    \/ \E p \in Procs : Wake(p)
    \/ \E p \in Procs : EnsureAcquired(p)
    \/ \E p \in Procs : StaleCloseEnds(p)
    \/ \E p \in Procs : RecoverInitReturns(p)
    \/ \E p \in Procs : RecoverInitRaises(p, w)
    \/ \E p \in Procs : BackendReturns(p, w)
    \/ \E p \in Procs : BackendYields(p, w)
    \/ \E p \in Procs : BackendCompletes(p)
    \/ \E p \in Procs : BackendRaises(p, w)
    \/ \E p \in Procs : SentinelSent(p)
    \/ \E p \in Procs : Disconnect(p)
    \/ Invalidate
    \/ Tick

Next == NextWith(AllRequests)
NextOne == NextWith(OneRequest)
NextPrompt == NextWith(AnyPrompt)
NextTerse == NextWith(Terse)

\* Every task may be a chat request.
Spec == Init /\ [][Next]_vars

\* One chat request with every backend answer, beside start() and stop().
SpecOne == Init /\ [][NextOne]_vars

\* One chat request with every model name and message list.
SpecPrompt == Init /\ [][NextPrompt]_vars

\* What the event loop and the backend do for task p once it has begun:
\* a task that can run is run, a sleep ends, and every backend init, close
\* and generate call ends (by returning or by raising).
Progress(p, w) ==
    \/ StartAcquired(p) \/ StartInitReturns(p) \/ StartInitRaises(p, w)
    \/ StopCloseReturns(p) \/ StopCloseRaises(p)
    \/ StreamStarts(p) \/ Wake(p) \/ EnsureAcquired(p) \/ StaleCloseEnds(p)
    \/ RecoverInitReturns(p) \/ RecoverInitRaises(p, w)
    \/ BackendReturns(p, w) \/ BackendYields(p, w)
    \/ BackendCompletes(p) \/ BackendRaises(p, w)
    \/ SentinelSent(p)

\* Every task may be a request, under fair scheduling, with time passing
\* and backend calls ending.
SpecFair ==
    /\ Init /\ [][NextTerse]_vars
    /\ WF_vars(Tick) /\ \A p \in Procs : WF_vars(Progress(p, Terse))

----------------------------------------------------------------------------
\* Properties

ReadyNow == Ready(Cur)

Invocation(p) == kind[p] \in {"chat", "stream"}

\* The pcs at which a task is initialising the session (recovery includes
\* the teardown of the stale handle).
InitPcs == {"start_init", "ens_closing", "ens_init"}
WaitPcs == {"start_wait", "ens_wait"}

\* The content chunks the deltas ds must produce.
NonEmpty(ds) == SelectSeq(ds, Truthy)
ContentEvents(ds) ==
    [i \in 1..Len(NonEmpty(ds)) |-> ContentEvent(NonEmpty(ds)[i])]

\* The outcome the mapping table gives each failure class.
ExpectedOutcome(e) ==
    CASE e = "AuthError" -> <<401, "authentication_error", "auth_error">>
      [] e \in {"UsageLimitExceeded", "TemporarilyBlocked"} ->
             <<429, "rate_limit_error", "rate_limit">>
      [] e = "ModelInvalid" -> <<400, "invalid_request_error", "model_invalid">>
      [] e = "GeminiTimeoutError" -> <<502, "upstream_error", "timeout">>
      [] e \in {"GeminiError", "APIError"} ->
             <<502, "upstream_error", "gemini_error">>
      [] OTHER -> <<502, "upstream_error", "None">>

\* C1: the starts of any two consecutive backend calls are at least
\* MIN_REQUEST_INTERVAL apart, whatever the number of concurrent invocations.
C1_MinSpacing == lastGap >= MIN_REQUEST_INTERVAL

C3_InitExclusive ==
    /\ Cardinality({p \in Procs : pc[p] \in InitPcs}) <= 1
    /\ \A p \in Procs : pc[p] \in InitPcs => lockOwner = p
    /\ \A p \in Procs :
           (pc[p] \in WaitPcs /\ lockOwner # p) =>
               (lockOwner # 0 /\ \E i \in 1..Len(waiters) : waiters[i] = p)

C3_Witness ==
    \E p, q \in Procs :
        /\ pc[p] \in {"start_init", "ens_init"}
        /\ pc[q] \in WaitPcs /\ lockOwner = p

\* C4: a stream whose backend yields its deltas and completes produces the
\* role event, one content event per non-empty delta in order, the finish
\* event with reason "stop" and the [DONE] sentinel, and nothing else.
C4_StreamComplete ==
    \A p \in Procs :
        (kind[p] = "stream" /\ pc[p] = "done" /\ exc[p] = "None") =>
            /\ events[p] = <<RoleEvent>> \o ContentEvents(deltas[p])
                             \o <<FinishEvent, DoneEvent>>
            /\ Len(events[p]) = Len(NonEmpty(deltas[p])) + 3
            /\ events[p][Len(events[p]) - 1].finish_reason = "stop"

C4_Witness ==
    \E p \in Procs :
        /\ kind[p] = "stream" /\ pc[p] = "done" /\ exc[p] = "None"
        /\ deltas[p] = <<"b", "", "a">>

\* C5: a stream whose backend (or throttling/recovery) raises after k deltas
\* produces the role event, the content events so far, one error event, the
\* [DONE] sentinel and nothing else (no finish event); the exception does
\* not leave the generator, which can always go on to the sentinel.
C5_StreamError ==
    \A p \in Procs :
        (kind[p] = "stream" /\ exc[p] # "None" /\ pc[p] # "cancelled") =>
            /\ pc[p] \in {"s_err", "done"}
            /\ events[p] = <<RoleEvent>> \o ContentEvents(deltas[p])
                             \o <<ErrorEvent(exc[p])>>
                             \o (IF pc[p] = "done" THEN <<DoneEvent>>
                                 ELSE <<>>)
            /\ pc[p] = "s_err" => ENABLED SentinelSent(p)

C5_Witness ==
    \E p \in Procs :
        /\ kind[p] = "stream" /\ pc[p] = "done" /\ exc[p] = "GeminiError"
        /\ deltas[p] = <<"a", "NoneDelta", "b">>

\* C6: start() on a live session creates no handle, starts no
\* initialisation and leaves the session handle, its liveness and the
\* throttle stamp as they were.
StartDecides(p) ==
    \/ pc[p] = "idle" /\ kind'[p] = "start" /\ pc'[p] # "start_wait"
    \/ pc[p] = "start_wait" /\ pc'[p] # "start_wait"

C6_StartIdempotent ==
    [][\A p \in Procs :
          (StartDecides(p) /\ ReadyNow) =>
              /\ pc'[p] = "done" /\ exc'[p] = "None"
              /\ client' = client /\ running' = running
              /\ numHandles' = numHandles /\ elapsed' = elapsed
              /\ h'[p] = 0]_vars

C6_Witness ==
    \E p \in Procs :
        /\ kind[p] = "start" /\ pc[p] = "done" /\ exc[p] = "None"
        /\ h[p] = 0 /\ ReadyNow

\* C7: when an initialisation fails, the exception reaches the caller, the
\* call ends without another attempt (no new handle, the lock released) and
\* the manager is not ready.
InitEndsInFailure(p) ==
    /\ pc[p] \in {"start_init", "ens_init"}
    /\ <<pc[p], h[p], exc[p]>>' # <<pc[p], h[p], exc[p]>>
    /\ h[p] \notin running' /\ pc'[p] # "cancelled"

C7_InitFailure ==
    [][\A p \in Procs :
          InitEndsInFailure(p) =>
              /\ exc'[p] # "None"
              /\ pc'[p] \in {"done", "s_err"}
              /\ kind[p] = "chat" => resp'[p].status >= 400
              /\ numHandles' = numHandles
              /\ lockOwner' # p
              /\ ~ReadyNow']_vars

\* start() failed, then the recovery of a request failed too (nothing has
\* run since the request saw the session not ready).
C7_Witness ==
    \E p, q \in Procs :
        /\ kind[p] = "start" /\ pc[p] = "done" /\ exc[p] # "None"
        /\ kind[q] = "chat" /\ pc[q] = "done" /\ exc[q] # "None"
        /\ seen[q] /\ h[q] # 0 /\ h[q] # h[p] /\ client = h[q]
        /\ running = {} /\ lockOwner = 0

\* C8: after an initialisation failure, an invocation that finds the session
\* not ready does not fail outright: it queues for the lock or begins a new
\* initialisation; and when its initialisation of the manager's handle
\* succeeds, the manager is ready and the invocation issues its backend call.
PassesThrottle(p) ==
    /\ pc[p] \in {"idle", "s_role", "sleeping"}
    /\ Invocation(p)' /\ pc'[p] \notin {"s_role", "sleeping", "cancelled"}

C9_StatusByPath ==
    \A p \in Procs :
        /\ kind[p] = "stream" =>
               /\ resp[p].status = 200
               /\ Len(events[p]) >= 1 /\ events[p][1] = RoleEvent
               /\ exc[p] # "None" =>
                      \E i \in 2..Len(events[p]) :
                          events[p][i] = ErrorEvent(exc[p])
        /\ (kind[p] = "chat" /\ exc[p] # "None") =>
               /\ pc[p] = "done"
               /\ resp[p].status = ExpectedOutcome(exc[p])[1]
               /\ resp[p].status >= 400

C9_Witness ==
    \E p, q \in Procs :
        /\ kind[p] = "stream" /\ exc[p] = "AuthError" /\ deltas[p] = <<>>
        /\ pc[p] = "done" /\ resp[p].status = 200
        /\ kind[q] = "chat" /\ exc[q] = "AuthError" /\ resp[q].status = 401

\* C10: every failure gets exactly the outcome of its class: its specific
\* class's outcome where it has one, never the generic or unclassified one.
C10_MapperTotal ==
    \A p \in Procs :
        (kind[p] = "chat" /\ exc[p] # "None") =>
            /\ <<resp[p].status, resp[p].type, resp[p].code>>
                   = ExpectedOutcome(exc[p])
            /\ resp[p].message[2] = exc[p]

C10_Witness ==
    \E p \in Procs :
        /\ kind[p] = "chat" /\ pc[p] = "done"
        /\ exc[p] = "GeminiTimeoutError" /\ resp[p].code = "timeout"

\* C11: a request whose model name cannot be resolved is answered 400 with
\* type invalid_request_error at once, in either mode: no throttle sleep, the
\* stamp unchanged, no handle created, the lock and its queue untouched, no
\* backend call issued and no event produced.
UnresolvableArrives(p) ==
    /\ pc[p] = "idle" /\ model'[p] # ""
    /\ resolve_model(model'[p]) = "ValueError"

C11_InvalidModel ==
    [][\A p \in Procs :
          UnresolvableArrives(p) =>
              /\ pc'[p] = "done"
              /\ kind'[p] \in {"invalid_chat", "invalid_stream"}
              /\ resp'[p].status = 400
              /\ resp'[p].type = "invalid_request_error"
              /\ events'[p] = <<>> /\ sleepLeft'[p] = 0 /\ h'[p] = 0
              /\ elapsed' = elapsed
              /\ client' = client /\ running' = running
              /\ numHandles' = numHandles
              /\ lockOwner' = lockOwner /\ waiters' = waiters
              /\ sinceCall' = sinceCall /\ lastGap' = lastGap]_vars

C11_Witness ==
    \E p, q \in Procs :
        /\ kind[p] = "invalid_chat" /\ kind[q] = "invalid_stream"
        /\ model[p] = "not-a-model" /\ model[q] = "not-a-model"
        /\ resp[p].status = 400 /\ resp[q].status = 400
        /\ elapsed < MIN_REQUEST_INTERVAL

\* C14: the prompt is the turn contents in input order with a blank line
\* between consecutive turns: each turn's content stands at its place, a
\* separator stands between turns and nowhere else, and a single turn gives
\* its content alone.
RECURSIVE Offset(_, _)
Offset(msgs, i) ==
    IF i = 1 THEN 0
    ELSE Offset(msgs, i - 1) + Len(msgs[i - 1].content) + 2

PromptOf(pr, msgs) ==
    LET n == Len(msgs) IN
    /\ n = 0 => pr = <<>>
    /\ n = 1 => pr = msgs[1].content
    /\ n >= 1 => Len(pr) = Offset(msgs, n) + Len(msgs[n].content)
    /\ \A i \in 1..n :
           LET from == Offset(msgs, i)
               len == Len(msgs[i].content)
           IN  /\ from + len <= Len(pr)
               /\ SubSeq(pr, from + 1, from + len) = msgs[i].content
               /\ i < n => /\ from + len + 2 <= Len(pr)
                            /\ pr[from + len + 1] = "\n"
                            /\ pr[from + len + 2] = "\n"

C14_PromptOrder ==
    \A p \in Procs :
        kind[p] \in {"chat", "stream"} => PromptOf(prompt[p], messages[p])

C14_Witness ==
    \E p \in Procs :
        /\ kind[p] = "chat" /\ pc[p] = "calling"
        /\ Len(messages[p]) = 3
        /\ messages[p][1].content = <<"b", "\n">>
        /\ messages[p][2].content = <<>>
        /\ messages[p][3].content = <<"a">>
        /\ prompt[p] = <<"b", "\n", "\n", "\n", "\n", "\n", "a">>

\* C12: when stop() returns the manager holds no handle and is not ready,
\* whatever the state it was called in; called with no handle it returns at
\* once, issues no close and changes nothing of the manager.
StopReturns(p) ==
    /\ pc[p] \in {"idle", "stop_closing"}
    /\ kind'[p] = "stop" /\ pc'[p] = "done" /\ exc'[p] = "None"

StopCalled(p) == pc[p] = "idle" /\ kind'[p] = "stop"

C12_StopIdempotent ==
    [][\A p \in Procs :
          /\ StopReturns(p) => (client' = 0 /\ ~ReadyNow')
          /\ (StopCalled(p) /\ client = 0) =>
                 /\ StopReturns(p) /\ h'[p] = 0
                 /\ client' = client /\ running' = running
                 /\ numHandles' = numHandles /\ elapsed' = elapsed
                 /\ lockOwner' = lockOwner /\ waiters' = waiters]_vars

\* start() made the session live, stop() then closed and released it.
C12_Witness ==
    \E p, q \in Procs :
        /\ kind[q] = "start" /\ pc[q] = "done" /\ exc[q] = "None"
        /\ kind[p] = "stop" /\ pc[p] = "done" /\ exc[p] = "None"
        /\ h[p] # 0 /\ h[p] = h[q] /\ client = 0 /\ running = {}

\* C13: when the caller of a stream disconnects, at whichever suspension
\* point, the stream produces no event any more (no error event, no
\* sentinel), the handle, its liveness and the stamp are as they were, the
\* task neither holds the lock nor stays in its queue (the lock goes to the
\* next waiter), and the lock is never held by a task that has ended.
Disconnects(p) == pc[p] # "cancelled" /\ pc'[p] = "cancelled"

Without(q, p) == SelectSeq(q, LAMBDA x : x # p)

C13_Cancellation ==
    [][\A p \in Procs :
          /\ Disconnects(p) =>
                 /\ events'[p] = events[p] /\ resp'[p] = resp[p]
                 /\ client' = client /\ running' = running
                 /\ numHandles' = numHandles /\ elapsed' = elapsed
                 /\ lockOwner' # p /\ waiters' = Without(waiters', p)
                 /\ lockOwner = p =>
                        lockOwner' = (IF waiters = <<>> THEN 0
                                      ELSE Head(waiters))
          /\ pc[p] = "cancelled" =>
                 (pc'[p] = "cancelled" /\ events'[p] = events[p])
          /\ lockOwner' = p => pc'[p] \notin {"done", "cancelled"}]_vars

\* A stream was cancelled inside its recovery while a request was queued for
\* the lock; that request then recovered the session and issued its call.
C13_Witness ==
    \E p, q \in Procs :
        /\ kind[p] = "stream" /\ pc[p] = "cancelled"
        /\ h[p] # 0 /\ h[p] \notin running
        /\ Invocation(q) /\ pc[q] = "calling" /\ seen[q]
        /\ h[q] > h[p] /\ h[q] = client /\ ReadyNow

\* C15: an invocation never computes its elapsed time from a stamp that
\* another invocation has read and not yet written (the other one being
\* suspended in the throttle sleep).
ComputesElapsed(p) ==
    \/ pc[p] = "idle" /\ kind'[p] = "chat"
    \/ pc[p] = "s_role" /\ pc'[p] \notin {"s_role", "cancelled"}

C15_AtomicThrottle ==
    [][\A p \in Procs :
          ComputesElapsed(p) =>
              \A q \in Procs \ {p} : ~stampRead[q]]_vars

\* C16: the handle changes only in a step of the task that holds the lock
\* and goes on holding it; the stamp is written only by the task that holds
\* the lock.
Moves(p) == pc'[p] # pc[p]

C16_MutationsLocked ==
    [][/\ client' # client => \E p \in Procs : Moves(p) /\ lockOwner' = p
       /\ elapsed' < elapsed => \E p \in Procs : Moves(p) /\ lockOwner = p
      ]_vars

\* C17: the manager's handle is given up (replaced or released) only in
\* the step that follows a close attempt on that very handle.
C17_CloseBeforeReplace ==
    [][(client # 0 /\ client' # client) =>
           \E p \in Procs :
               /\ pc[p] \in {"ens_closing", "stop_closing"} /\ Moves(p)
               /\ h[p] = client]_vars

\* C18: the error event of a failed stream has the type of the failure's
\* class (and the failure's message).
C18_ErrorEventType ==
    \A p \in Procs :
        (kind[p] = "stream" /\ exc[p] # "None") =>
            \E i \in 1..Len(events[p]) :
                /\ events[p][i].ev = "error"
                /\ events[p][i].message = exc[p]
                /\ events[p][i].type = ExpectedOutcome(exc[p])[2]

\* C19: no invocation ever issues its backend call on a missing handle.
C19_HandlePresent ==
    \A p \in Procs : Invocation(p) => exc[p] # "AttributeError"

\* C20: the lock is held only by a task that is inside start() or the
\* recovery (or has just been handed it), never by one that has left them;
\* and under fair scheduling, with every backend call ending, a task that
\* waits for the lock gets it (or is cancelled) and every task that has begun
\* ends with a result, an exception or its cancellation.
C20_NoDeadlock ==
    /\ [](\A p \in Procs : lockOwner = p => pc[p] \in WaitPcs \cup InitPcs)
    /\ \A p \in Procs :
           /\ (pc[p] \in WaitPcs) ~> (pc[p] \notin WaitPcs)
           /\ (pc[p] # "idle") ~> (pc[p] \in {"done", "cancelled"})

\* An initialisation has failed or was cancelled, and the lock has gone to
\* the task that was waiting for it.
C20_Witness ==
    \E p, q \in Procs :
        /\ pc[p] \in {"done", "s_err", "cancelled"}
        /\ h[p] # 0 /\ h[p] = client /\ h[p] \notin running
        /\ pc[q] \in WaitPcs /\ lockOwner = q

====
